---- MODULE Spec2Model ----
(***************************************************************************)
(* scripts/generate_embeddings.py: the batch job that computes an          *)
(* embedding for every note whose embedding column is NULL and writes it   *)
(* back, one commit per note.                                              *)
(*                                                                         *)
(* The state is the process environment, the committed contents of the     *)
(* notes table, the connection's open transaction, the locals of           *)
(* process_notes, standard output, and the record of every call made to    *)
(* the two external services (in real-time order).                         *)
(*                                                                         *)
(* Texts are sequences of one-character strings.  Times are naturals.      *)
(*                                                                         *)
(* Environment: psycopg2.connect, the SELECT, get_embedding, the UPDATE    *)
(* and conn.commit() may each raise; conn.cursor(), conn.rollback(),       *)
(* cur.close(), conn.close() and print() return normally.                  *)
(***************************************************************************)
EXTENDS Naturals, Sequences, FiniteSets

(* ------------------------------ bounds --------------------------------- *)

\* Row ids of the notes table are 1..MaxNotes.
MaxNotes == 2

\* The clock runs from 1 to MaxClock; older timestamps in the table are 0.
MaxClock == 2

\* Other agents write to the table at most MaxAgentWrites times during a run.
MaxAgentWrites == 1

\* Long texts have lengths within Margin of the truncation boundary.
Margin == 1

(* ----------------------------- constants ------------------------------- *)

\* full_text[:8000]
TruncLimit == 8000

NULL == "NULL"
NL == "\n"
SP == " "

NoteIds == 1..MaxNotes

\* Vectors the embedding provider may return.
Vectors == {"v1", "v2"}
\* A vector already stored before the run, and one another agent stores.
OldVector == "v0"
AgentVector == "w"

Min(a, b) == IF a < b THEN a ELSE b

(* ------------------------------- texts --------------------------------- *)

\* A text of length n: every third character a newline, the others c.
Text(n, c) == [i \in 1..n |-> IF i % 3 = 0 THEN NL ELSE c]

ShortTitles == {<<"T">>}
ShortContents == {<<"c", NL, "d">>}

LongTitles ==
    {Text(n, "t") : n \in (0..Margin) \cup ((TruncLimit - 1 - Margin)..(TruncLimit + Margin))}
LongContents ==
    {Text(n, "c") : n \in (0..Margin) \cup ((TruncLimit - 3 - Margin)..(TruncLimit - 1))}

\* f"{title}\n\n{content}"
FullText(title, content) == title \o <<NL, NL>> \o content

\* full_text[:8000] with an off-by-one bound.
TruncateShort(s) == SubSeq(s, 1, Min(Len(s), TruncLimit - 1))

\* full_text[:8000]
Truncate(s) == SubSeq(s, 1, Min(Len(s), TruncLimit))

RECURSIVE DropNewlines(_)
\* text.replace("\n", "")
DropNewlines(s) ==
    IF s = <<>> THEN <<>>
    ELSE IF Head(s) = NL THEN DropNewlines(Tail(s))
    ELSE <<Head(s)>> \o DropNewlines(Tail(s))

\* text.replace("\n", " ")
ReplaceNewlines(s) == [i \in 1..Len(s) |-> IF s[i] = NL THEN SP ELSE s[i]]

(* ------------------------------- state --------------------------------- *)

VARIABLES
    env,            \* os.environ after load_dotenv: OPENAI_API_KEY, DATABASE_URL
    pc,             \* position of the script
    clock,          \* current time
    batchStart,     \* time at which process_notes was entered (0: not yet)
    table,          \* committed rows of notes, by id
    table0,         \* the table when the script started
    pending,        \* uncommitted writes of the open transaction: <<id, row>>
    inTx,           \* the connection has an open transaction
    txStart,        \* start time of the open transaction, the value of NOW()
    connOpen,       \* conn is open
    curOpen,        \* cur is open
    notes,          \* cur.fetchall(): sequence of <<id, title, content>>
    idx,            \* number of elements of notes the for loop has taken
    \* locals of process_notes (0, <<>> and NULL while unbound)
    note_id, title, content, full_text, truncated_text, embedding,
    request,        \* input of the last client.embeddings.create call
    out,            \* standard output, one entry per line
    calls,          \* every call to the datastore or the provider, in order
    agentWrites     \* number of writes by other agents during the run

vars == <<env, pc, clock, batchStart, table, table0, pending, inTx, txStart,
          connOpen, curOpen, notes, idx, note_id, title, content, full_text,
          truncated_text, embedding, request, out, calls, agentWrites>>

locals == <<note_id, title, content, full_text, truncated_text, embedding>>
conn == <<pending, inTx, txStart, connOpen, curOpen>>

\* A nullable timestamp: NoTime is SQL NULL, At(t) the time t.
NoTime == <<>>
At(t) == <<t>>

AbsentRow ==
    [present |-> FALSE, title |-> <<>>, content |-> <<>>,
     embedding |-> NULL, indexed_at |-> NoTime]

\* A row with an embedding.
IsEmbedded(row) == row.present /\ row.embedding # NULL

\* No WHERE clause.
IsPresent(row) == row.present

\* WHERE embedding IS NULL
IsCandidate(row) == row.present /\ row.embedding = NULL

Rows(titles, contents) ==
    {AbsentRow} \cup
    [present : {TRUE}, title : titles, content : contents,
     embedding : {NULL}, indexed_at : {NoTime, At(0)}] \cup
    [present : {TRUE}, title : titles, content : contents,
     embedding : {OldVector}, indexed_at : {At(0)}]

\* A recorded call: who made it, the operation, the row id (0: none), whether
\* it returned (TRUE) or raised (FALSE), and the vector returned or written.
Call(who, op, id, ok, val) ==
    [who |-> who, op |-> op, id |-> id, ok |-> ok, val |-> val]

\* Time passes during the network calls that open the connection and compute
\* an embedding.
Later == {t \in {clock, clock + 1} : t <= MaxClock}

InitWith(tables, times) ==
    /\ env \in [OPENAI_API_KEY : {NULL, "", "sk-key"},
                DATABASE_URL : {NULL, "postgres://db"}]
    /\ pc = "start"
    /\ clock \in times
    /\ batchStart = 0
    /\ table \in tables
    /\ table0 = table
    /\ pending = {}
    /\ inTx = FALSE
    /\ txStart = 0
    /\ connOpen = FALSE
    /\ curOpen = FALSE
    /\ notes = <<>>
    /\ idx = 0
    /\ note_id = 0
    /\ title = <<>>
    /\ content = <<>>
    /\ full_text = <<>>
    /\ truncated_text = <<>>
    /\ embedding = NULL
    /\ request = <<>>
    /\ out = <<>>
    /\ calls = <<>>
    /\ agentWrites = 0

Init == InitWith([NoteIds -> Rows(ShortTitles, ShortContents)], {1, 2})

\* One note with texts around the truncation boundary; the other rows absent.
InitText ==
    InitWith({[i \in NoteIds |-> IF i = 1 THEN r ELSE AbsentRow] :
              r \in [present : {TRUE}, title : LongTitles, content : LongContents,
                     embedding : {NULL}, indexed_at : {NoTime}]},
             {MaxClock})

\* Tables for the runs with other agents: no time passes during the run.
InitConcurrent ==
    InitWith({t \in [NoteIds -> Rows(ShortTitles, ShortContents)] :
                 \A i \in NoteIds : IsCandidate(t[i]) => t[i].indexed_at = NoTime},
             {MaxClock})

(* --------------------------- module level ------------------------------ *)

\* `not DATABASE_URL`: the check reads the other variable.
ChecksDatabaseUrl == env.DATABASE_URL = NULL \/ env.DATABASE_URL = ""

\* `not OPENAI_API_KEY`
MissingKey == env.OPENAI_API_KEY = NULL \/ env.OPENAI_API_KEY = ""

\* if not OPENAI_API_KEY: raise ValueError(...)
RaiseMissingKey ==
    /\ pc = "start"
    /\ MissingKey
    /\ pc' = "raised"
    /\ UNCHANGED <<env, clock, batchStart, table, table0, conn, notes, idx,
                   locals, request, out, calls, agentWrites>>

\* client = OpenAI(api_key=OPENAI_API_KEY); ...; process_notes()
EnterMain ==
    /\ pc = "start"
    /\ ~MissingKey
    /\ pc' = "connect"
    /\ batchStart' = clock
    /\ UNCHANGED <<env, clock, table, table0, conn, notes, idx,
                   locals, request, out, calls, agentWrites>>

(* --------------------------- process_notes ----------------------------- *)

\* conn = psycopg2.connect(DATABASE_URL); cur = conn.cursor()
Connect ==
    /\ pc = "connect"
    /\ env.DATABASE_URL # NULL
    /\ clock' \in Later
    /\ connOpen' = TRUE
    /\ curOpen' = TRUE
    /\ calls' = Append(calls, Call("script", "connect", 0, TRUE, NULL))
    /\ pc' = "select"
    /\ UNCHANGED <<env, batchStart, table, table0, pending, inTx, txStart,
                   notes, idx, locals, request, out, agentWrites>>

\* psycopg2.connect raises (no DATABASE_URL, or the server is unreachable):
\* the exception leaves process_notes.
ConnectFail ==
    /\ pc = "connect"
    /\ clock' \in Later
    /\ calls' = Append(calls, Call("script", "connect", 0, FALSE, NULL))
    /\ pc' = "crashed"
    /\ UNCHANGED <<env, batchStart, table, table0, conn, notes, idx,
                   locals, request, out, agentWrites>>

Candidates(t) == {i \in NoteIds : IsCandidate(t[i])}

\* The result sets SELECT id, title, content can return: the candidates in
\* any order (the query has no ORDER BY).
ResultSets(t) ==
    {r \in [1..Cardinality(Candidates(t)) -> Candidates(t)] :
        \A i, j \in DOMAIN r : i # j => r[i] # r[j]}

Fetch(t, r) == [k \in DOMAIN r |-> <<r[k], t[r[k]].title, t[r[k]].content>>]

\* cur.execute("SELECT ..."); notes = cur.fetchall(); print(f"Found ...")
\* The first statement opens the connection's transaction.
Select ==
    /\ pc = "select"
    /\ \E r \in ResultSets(table) : notes' = Fetch(table, r)
    /\ inTx' = TRUE
    /\ txStart' = clock
    /\ out' = Append(out, <<"Found", Len(notes')>>)
    /\ calls' = Append(calls, Call("script", "select", 0, TRUE, NULL))
    /\ pc' = "loop"
    /\ UNCHANGED <<env, clock, batchStart, table, table0, pending, connOpen,
                   curOpen, idx, locals, request, agentWrites>>

\* The SELECT raises: the exception leaves process_notes.
SelectFail ==
    /\ pc = "select"
    /\ calls' = Append(calls, Call("script", "select", 0, FALSE, NULL))
    /\ pc' = "crashed"
    /\ UNCHANGED <<env, clock, batchStart, table, table0, conn, notes, idx,
                   locals, request, out, agentWrites>>

\* for note_id, title, content in notes: full_text = ...; truncated_text = ...
NextNote ==
    /\ pc = "loop"
    /\ idx < Len(notes)
    /\ idx' = idx + 1
    /\ note_id' = notes[idx'][1]
    /\ title' = notes[idx'][2]
    /\ content' = notes[idx'][3]
    /\ full_text' = FullText(title', content')
    /\ truncated_text' = Truncate(full_text')
    /\ pc' = "embed"
    /\ UNCHANGED <<env, clock, batchStart, table, table0, conn, notes,
                   embedding, request, out, calls, agentWrites>>

\* embedding = get_embedding(truncated_text)
GetEmbedding ==
    /\ pc = "embed"
    /\ request' = ReplaceNewlines(truncated_text)
    /\ clock' \in Later
    /\ embedding' \in Vectors
    /\ calls' = Append(calls, Call("script", "embed", note_id, TRUE, embedding'))
    /\ pc' = "update"
    /\ UNCHANGED <<env, batchStart, table, table0, conn, notes, idx, note_id,
                   title, content, full_text, truncated_text, out, agentWrites>>

\* client.embeddings.create raises.
GetEmbeddingFail ==
    /\ pc = "embed"
    /\ request' = ReplaceNewlines(truncated_text)
    /\ clock' \in Later
    /\ calls' = Append(calls, Call("script", "embed", note_id, FALSE, NULL))
    /\ pc' = "except"
    /\ UNCHANGED <<env, batchStart, table, table0, conn, notes, idx, locals,
                   out, agentWrites>>

\* UPDATE notes SET embedding = %s WHERE id = %s
SetEmbeddingOnly(row, e, now) == [row EXCEPT !.embedding = e]

\* UPDATE notes SET embedding = %s, indexed_at = NOW() WHERE id = %s AND embedding IS NULL
SetIfNull(row, e, now) ==
    IF row.embedding = NULL
    THEN [row EXCEPT !.embedding = e, !.indexed_at = At(now)]
    ELSE row

\* SET embedding = %s, indexed_at = NOW()
SetRow(row, e, now) == [row EXCEPT !.embedding = e, !.indexed_at = At(now)]

\* NOW(): the start time of the current transaction, which the statement
\* opens when none is open.
Now == IF inTx THEN txStart ELSE clock

\* cur.execute("UPDATE notes SET ... WHERE id = %s", (embedding, note_id))
Update ==
    /\ pc = "update"
    /\ inTx' = TRUE
    /\ txStart' = Now
    /\ pending' =
         IF table[note_id].present
         THEN {w \in pending : w[1] # note_id}
              \cup {<<note_id, SetRow(table[note_id], embedding, Now)>>}
         ELSE pending
    /\ calls' = Append(calls, Call("script", "update", note_id, TRUE, embedding))
    /\ pc' = "commit"
    /\ UNCHANGED <<env, clock, batchStart, table, table0, connOpen, curOpen,
                   notes, idx, locals, request, out, agentWrites>>

\* The UPDATE raises.
UpdateFail ==
    /\ pc = "update"
    /\ inTx' = TRUE
    /\ txStart' = Now
    /\ calls' = Append(calls, Call("script", "update", note_id, FALSE, embedding))
    /\ pc' = "except"
    /\ UNCHANGED <<env, clock, batchStart, table, table0, pending, connOpen,
                   curOpen, notes, idx, locals, request, out, agentWrites>>

\* A commit that makes nothing durable.
NotCommitted(t, p) == t

\* The table after the transaction's writes become durable.
Committed(t, p) ==
    [i \in NoteIds |-> IF \E w \in p : w[1] = i
                       THEN (CHOOSE w \in p : w[1] = i)[2]
                       ELSE t[i]]

\* conn.commit(); print(f"Processed note {note_id}: {title}")
Commit ==
    /\ pc = "commit"
    /\ table' = Committed(table, pending)
    /\ pending' = {}
    /\ inTx' = FALSE
    /\ txStart' = 0
    /\ out' = Append(out, <<"Processed", note_id>>)
    /\ calls' = Append(calls, Call("script", "commit", note_id, TRUE, NULL))
    /\ pc' = "loop"
    /\ UNCHANGED <<env, clock, batchStart, table0, connOpen, curOpen, notes,
                   idx, locals, request, agentWrites>>

\* conn.commit() raises: nothing becomes durable.
CommitFail ==
    /\ pc = "commit"
    /\ calls' = Append(calls, Call("script", "commit", note_id, FALSE, NULL))
    /\ pc' = "except"
    /\ UNCHANGED <<env, clock, batchStart, table, table0, conn, notes, idx,
                   locals, request, out, agentWrites>>

\* A handler that does not roll back.
KeepWrites(p) == p

\* conn.rollback(): the transaction's writes are discarded.
RolledBack(p) == {}

\* A handler that prints and re-raises.
ExceptReraise ==
    /\ pc = "except"
    /\ out' = Append(out, <<"Error", note_id>>)
    /\ pc' = "crashed"
    /\ UNCHANGED <<env, clock, batchStart, table, table0, conn, notes, idx,
                   locals, request, calls, agentWrites>>

\* except Exception as e: print(f"Error processing note ..."); conn.rollback()
Except ==
    /\ pc = "except"
    /\ out' = Append(out, <<"Error", note_id>>)
    /\ pending' = RolledBack(pending)
    /\ inTx' = FALSE
    /\ txStart' = 0
    /\ calls' = Append(calls, Call("script", "rollback", note_id, TRUE, NULL))
    /\ pc' = "loop"
    /\ UNCHANGED <<env, clock, batchStart, table, table0, connOpen, curOpen,
                   notes, idx, locals, request, agentWrites>>

\* cur.close(); print("Finished processing notes."): conn is left open.
CloseCursorOnly ==
    /\ pc = "loop"
    /\ idx = Len(notes)
    /\ curOpen' = FALSE
    /\ calls' = Append(calls, Call("script", "cur.close", 0, TRUE, NULL))
    /\ out' = Append(out, <<"Finished">>)
    /\ pc' = "done"
    /\ UNCHANGED <<env, clock, batchStart, table, table0, pending, inTx,
                   txStart, connOpen, notes, idx, locals, request, agentWrites>>

\* cur.close(); conn.close(); print("Finished processing notes.")
\* Closing the connection discards an open transaction.
Close ==
    /\ pc = "loop"
    /\ idx = Len(notes)
    /\ curOpen' = FALSE
    /\ connOpen' = FALSE
    /\ pending' = {}
    /\ inTx' = FALSE
    /\ txStart' = 0
    /\ calls' = calls \o <<Call("script", "cur.close", 0, TRUE, NULL),
                           Call("script", "conn.close", 0, TRUE, NULL)>>
    /\ out' = Append(out, <<"Finished">>)
    /\ pc' = "done"
    /\ UNCHANGED <<env, clock, batchStart, table, table0, notes, idx, locals,
                   request, agentWrites>>

Next ==
    \/ RaiseMissingKey
    \/ EnterMain
    \/ Connect
    \/ ConnectFail
    \/ Select
    \/ SelectFail
    \/ NextNote
    \/ GetEmbedding
    \/ GetEmbeddingFail
    \/ Update
    \/ UpdateFail
    \/ Commit
    \/ CommitFail
    \/ Except
    \/ Close

(* ---------------------------- other agents ----------------------------- *)

\* Rows the connection's open transaction has written, which it holds locked.
Locked == {w[1] : w \in pending}

\* The instants at which another agent's write lands: between two notes, or
\* between the fetch of a note and its UPDATE.  A write before the SELECT is a
\* choice of the initial table; a write that lands while the script holds an
\* open UPDATE touches another row and leaves the same table as one that
\* lands after the script's commit or rollback.
Running == pc \in {"loop", "embed"}

\* Another agent inserts a note; its embedding is NULL.
AgentInsert ==
    /\ Running
    /\ agentWrites < MaxAgentWrites
    /\ \E i \in NoteIds, r \in Rows(ShortTitles, ShortContents) :
         /\ ~table[i].present
         /\ IsCandidate(r)
         /\ r.indexed_at = NoTime
         /\ table' = [table EXCEPT ![i] = r]
         /\ calls' = Append(calls, Call("agent", "insert", i, TRUE, NULL))
    /\ agentWrites' = agentWrites + 1
    /\ UNCHANGED <<env, pc, clock, batchStart, table0, conn, notes, idx,
                   locals, request, out>>

\* Another agent sets a note's embedding back to NULL.
AgentSetNull ==
    /\ Running
    /\ agentWrites < MaxAgentWrites
    /\ \E i \in NoteIds \ Locked :
         /\ IsEmbedded(table[i])
         /\ table' = [table EXCEPT ![i].embedding = NULL]
         /\ calls' = Append(calls, Call("agent", "update", i, TRUE, NULL))
    /\ agentWrites' = agentWrites + 1
    /\ UNCHANGED <<env, pc, clock, batchStart, table0, conn, notes, idx,
                   locals, request, out>>

\* Another agent stores an embedding of its own for a note.
AgentSetEmbedding ==
    /\ Running
    /\ agentWrites < MaxAgentWrites
    /\ \E i \in NoteIds \ Locked :
         /\ table[i].present
         /\ table[i].embedding # AgentVector
         /\ table' = [table EXCEPT ![i].embedding = AgentVector,
                                   ![i].indexed_at = At(clock)]
         /\ calls' = Append(calls, Call("agent", "update", i, TRUE, AgentVector))
    /\ agentWrites' = agentWrites + 1
    /\ UNCHANGED <<env, pc, clock, batchStart, table0, conn, notes, idx,
                   locals, request, out>>

NextConcurrent ==
    \/ Next
    \/ AgentInsert
    \/ AgentSetNull
    \/ AgentSetEmbedding

\* One run of the script; no other agent writes to the table.
Spec == Init /\ [][Next]_vars

\* One run of the script on a note whose texts are near the truncation bound.
SpecText == InitText /\ [][Next]_vars

\* One run of the script in which every step that is reached is taken: the
\* script is one sequential thread whose blocking calls return or raise.
FairSpec == Init /\ [][Next]_vars /\ WF_vars(Next)

\* One run of the script during which other agents write to the table.
SpecConcurrent == InitConcurrent /\ [][NextConcurrent]_vars

(* ------------------------- reading the records ------------------------- *)

\* Ids of the fetched candidates, and the position of one in the list.
SnapshotIds == {notes[k][1] : k \in DOMAIN notes}
Pos(i) == CHOOSE k \in DOMAIN notes : notes[k][1] = i

\* Positions in calls of the script's calls of one operation on one note.
CallsOf(op, i, ok) ==
    {k \in DOMAIN calls : /\ calls[k].who = "script"
                          /\ calls[k].op = op
                          /\ calls[k].id = i
                          /\ calls[k].ok = ok}

\* Some step of the attempt on note i raised.
Raised(i) == \E k \in DOMAIN calls : calls[k].id = i /\ ~calls[k].ok

\* The embedding call, the UPDATE and the commit of note i all returned.
AllReturned(i) ==
    /\ CallsOf("embed", i, TRUE) # {}
    /\ CallsOf("update", i, TRUE) # {}
    /\ CallsOf("commit", i, TRUE) # {}

IsEmbedCall(c) == c.who = "script" /\ c.op = "embed"
EmbedCalls == SelectSeq(calls, IsEmbedCall)

Printed(line) == \E k \in DOMAIN out : out[k] = line

(* ------------------------------- claims -------------------------------- *)

\* C1. Failure isolation: when the attempt on a candidate A raises (in
\* get_embedding, the UPDATE or the commit) and B comes later in the fetched
\* list, the exception does not leave process_notes, A keeps its NULL
\* embedding, and at the end of the run B has been attempted after A's
\* rollback and, if none of B's steps raised, B's embedding is committed.
C1_FailureIsolation ==
    \A a, b \in SnapshotIds :
        (Pos(a) < Pos(b) /\ Raised(a)) =>
            /\ pc # "crashed"
            /\ table[a].embedding = NULL
            /\ pc = "done" =>
                 /\ \E r \in CallsOf("rollback", a, TRUE) :
                      \E k \in DOMAIN calls :
                         /\ IsEmbedCall(calls[k])
                         /\ calls[k].id = b
                         /\ r < k
                 /\ ~Raised(b) =>
                      /\ table[b].embedding # NULL
                      /\ Printed(<<"Processed", b>>)

\* A's UPDATE raised, B came later and was committed.
C1_Witness ==
    /\ pc = "done"
    /\ \E a, b \in SnapshotIds :
         /\ Pos(a) < Pos(b)
         /\ CallsOf("update", a, FALSE) # {}
         /\ ~Raised(b)
         /\ table[a].embedding = NULL
         /\ table[b].embedding \in Vectors

\* C2. Selection predicate: a note whose embedding is non-null when the run
\* starts is never in the fetched list, no UPDATE is issued for its id, and
\* its row (embedding and indexed_at) stays as it was at the start.
C2_EmbeddedNeverSelected ==
    \A i \in NoteIds :
        (table0[i].present /\ table0[i].embedding # NULL) =>
            /\ i \notin SnapshotIds
            /\ \A k \in DOMAIN calls : calls[k].op = "update" => calls[k].id # i
            /\ table[i] = table0[i]

\* A run that ended, met an embedded note and processed another one.
C2_Witness ==
    /\ pc = "done"
    /\ \E i, j \in NoteIds :
         /\ table0[i].embedding = OldVector
         /\ Printed(<<"Processed", j>>)
         /\ Raised(j) = FALSE

\* C3. Atomic pair: in every committed state of the table a note that was a
\* candidate at the start either still has the row it had, or has both a
\* vector of the provider and a new, non-null indexed_at.
C3_AtomicPair ==
    \A i \in NoteIds :
        IsCandidate(table0[i]) =>
            \/ table[i] = table0[i]
            \/ /\ table[i].embedding \in Vectors
               /\ table[i].indexed_at # NoTime
               /\ table[i].indexed_at # table0[i].indexed_at

\* A candidate that carried an old indexed_at has been written by the run.
C3_Witness ==
    \E i \in NoteIds :
        /\ IsCandidate(table0[i])
        /\ table0[i].indexed_at = At(0)
        /\ table[i].embedding \in Vectors

\* C4 as stated. Every run that gets past the API-credential check runs to
\* normal completion: no exception leaves process_notes.
C4_NoExceptionLeaves == pc # "crashed"

SelectReturned == CallsOf("select", 0, TRUE) # {}

\* C4, amended. A run whose connect and SELECT return runs to normal
\* completion whatever embedding calls, UPDATEs and commits raise: it reaches
\* the end, where every fetched candidate has been attempted exactly once, in
\* order, the cursor and the connection have each been closed exactly once,
\* and "Finished" is the last line printed.  An exception leaves
\* process_notes only from connect or from the SELECT, before any attempt.
C4_CompletesAfterSelect ==
    /\ [](pc = "crashed" =>
            /\ ~SelectReturned
            /\ calls[Len(calls)].op \in {"connect", "select"}
            /\ ~calls[Len(calls)].ok
            /\ EmbedCalls = <<>>)
    /\ [](pc = "done" =>
            /\ Len(EmbedCalls) = Len(notes)
            /\ \A k \in DOMAIN notes : EmbedCalls[k].id = notes[k][1]
            /\ Cardinality(CallsOf("cur.close", 0, TRUE)) = 1
            /\ Cardinality(CallsOf("conn.close", 0, TRUE)) = 1
            /\ ~curOpen
            /\ ~connOpen
            /\ out[Len(out)] = <<"Finished">>)
    /\ (SelectReturned ~> pc = "done")

\* A run that ended normally although an embedding call and a commit raised.
C4_Witness ==
    /\ pc = "done"
    /\ \E a, b \in SnapshotIds :
         /\ CallsOf("embed", a, FALSE) # {}
         /\ CallsOf("commit", b, FALSE) # {}

\* C5. Fatal pre-flight: with OPENAI_API_KEY unset the script raises at
\* module level; no connect, SELECT, UPDATE or embedding call is ever made
\* and no connection is opened.
C5_FatalPreflight ==
    env.OPENAI_API_KEY = NULL =>
        /\ pc \in {"start", "raised"}
        /\ calls = <<>>
        /\ ~connOpen
        /\ ~curOpen

\* The ValueError was raised although DATABASE_URL is set and notes wait.
C5_Witness ==
    /\ pc = "raised"
    /\ env.OPENAI_API_KEY = NULL
    /\ env.DATABASE_URL # NULL
    /\ Candidates(table) # {}

\* C6. Truncation law: the text process_notes is about to pass to
\* get_embedding has length min(len(title) + 2 + len(content), 8000), which
\* is at most 8000, and is the first characters of title, two newlines,
\* content.
C6_TruncationLaw ==
    pc = "embed" =>
        /\ Len(truncated_text) = Min(Len(title) + 2 + Len(content), 8000)
        /\ Len(truncated_text) <= 8000
        /\ \A i \in DOMAIN truncated_text :
             truncated_text[i] =
                IF i <= Len(title) THEN title[i]
                ELSE IF i <= Len(title) + 2 THEN NL
                ELSE content[i - Len(title) - 2]

\* A text cut between the two newlines is about to be embedded.
C6_Witness ==
    /\ pc = "embed"
    /\ Len(title) = 7999
    /\ Len(content) > 0
    /\ Len(truncated_text) = 8000
    /\ truncated_text[8000] = NL

\* The embedding call of the current note has just been made.
JustEmbedded ==
    /\ pc \in {"update", "except"}
    /\ IsEmbedCall(calls[Len(calls)])

\* C7. Newline normalization: the text sent to the provider has no newline,
\* has the length of the text get_embedding was given, and differs from it
\* only in having a space wherever that text has a newline.
C7_NewlinesReplaced ==
    JustEmbedded =>
        /\ \A i \in DOMAIN request : request[i] # NL
        /\ Len(request) = Len(truncated_text)
        /\ \A i \in DOMAIN request :
             request[i] = IF truncated_text[i] = NL THEN SP ELSE truncated_text[i]

\* A request was sent for a truncated text with newlines in it.
C7_Witness ==
    /\ JustEmbedded
    /\ Len(title) = 1
    /\ Len(request) = 8000
    /\ request[1] = "t"
    /\ truncated_text[2] = NL
    /\ request[2] = SP
    /\ request[4] = "c"
    /\ \E i \in DOMAIN request : i > 4 /\ truncated_text[i] = NL /\ request[i] = SP

\* The vector the provider returned for note i.
Returned(i) == calls[CHOOSE k \in CallsOf("embed", i, TRUE) : TRUE].val

\* C8. Success path: at the end of the run every fetched note whose
\* embedding call, UPDATE and commit all returned has the vector the provider
\* returned for it and an indexed_at not earlier than the start of the batch;
\* and when no call raised, no note with a NULL embedding remains.
C8_SuccessPath ==
    pc = "done" =>
        /\ \A i \in SnapshotIds :
             AllReturned(i) =>
                /\ table[i].embedding # NULL
                /\ table[i].embedding = Returned(i)
                /\ table[i].indexed_at # NoTime
                /\ table[i].indexed_at[1] >= batchStart
        /\ (\A k \in DOMAIN calls : calls[k].ok) =>
             \A i \in NoteIds : ~IsCandidate(table[i])

\* A run of two or more candidates ended with no call raised, the provider
\* having returned different vectors, and time having passed.
C8_Witness ==
    /\ pc = "done"
    /\ Len(notes) >= 2
    /\ \A k \in DOMAIN calls : calls[k].ok
    /\ \E i, j \in SnapshotIds :
         /\ table[i].embedding # table[j].embedding
         /\ table[i].indexed_at[1] > batchStart
         /\ table[j].indexed_at[1] = batchStart

\* The commit of the current note's UPDATE.
CommitStep == pc = "commit" /\ pc' = "loop"

\* C9. Single snapshot under concurrent writers: the SELECT is executed once
\* and the fetched list never changes afterwards; the script makes an
\* embedding call or an UPDATE only for ids of that list, so a note another
\* agent inserts or resets after the SELECT is not processed; and the commit
\* of a fetched note stores the provider's vector and NOW() whatever
\* embedding another agent has stored in that row since the SELECT.
C9_SingleSnapshot ==
    /\ [](/\ Cardinality(CallsOf("select", 0, TRUE)) <= 1
          /\ \A k \in DOMAIN calls :
               (calls[k].who = "script" /\ calls[k].op \in {"embed", "update"})
                  => calls[k].id \in SnapshotIds)
    /\ [][SelectReturned => notes' = notes]_vars
    /\ [][CommitStep =>
            /\ table'[note_id].embedding = embedding
            /\ table'[note_id].indexed_at = At(txStart)]_vars

\* Another agent stored its vector in a fetched note between the SELECT and
\* the script's UPDATE of that note, and the script's commit replaced it.
C9_Witness ==
    /\ pc = "done"
    /\ \E i \in SnapshotIds :
         /\ table[i].embedding \in Vectors
         /\ \E a \in DOMAIN calls, u \in CallsOf("update", i, TRUE) :
              /\ calls[a].who = "agent"
              /\ calls[a].id = i
              /\ calls[a].val = AgentVector
              /\ a < u

\* Number of transactions the script has ended: commits that returned, and
\* rollbacks.
Ended(i) ==
    Cardinality(CallsOf("commit", i, TRUE)) + Cardinality(CallsOf("rollback", i, TRUE))

InAttempt == pc \in {"embed", "update", "commit", "except"}

\* C10. Transaction reset between records: the attempts are made in the
\* order of the fetched list, each with one embedding call; a finished
\* attempt has ended its transaction exactly once, by a commit that returned
\* or by a rollback, and the attempt in progress not yet; an attempt starts
\* with no pending write, the only pending write is the current note's, and a
\* note one of whose steps raised keeps its NULL embedding.
C10_TransactionReset ==
    /\ Len(EmbedCalls) = (IF pc = "embed" THEN idx - 1 ELSE idx)
    /\ \A k \in DOMAIN EmbedCalls : EmbedCalls[k].id = notes[k][1]
    /\ \A k \in DOMAIN notes :
         Ended(notes[k][1]) =
            (IF k < idx \/ (k = idx /\ ~InAttempt) THEN 1 ELSE 0)
    /\ pc = "embed" => pending = {}
    /\ \A w \in pending : w[1] = note_id
    /\ \A i \in SnapshotIds : Raised(i) => table[i].embedding = NULL

\* A's UPDATE returned and its commit raised; B's commit came later, and A
\* still has no embedding.
C10_Witness ==
    \E a, b \in SnapshotIds :
        /\ Pos(a) < Pos(b)
        /\ CallsOf("update", a, TRUE) # {}
        /\ CallsOf("commit", a, FALSE) # {}
        /\ CallsOf("commit", b, TRUE) # {}
        /\ table[a].embedding = NULL
        /\ table[b].embedding # NULL

====
